---- MODULE Spec2Model ----
(***************************************************************************)
(* The watch/alert engine of the footy plugin: the watch registry, the     *)
(* last-observed home-win probability per eventKey, the pending-alert      *)
(* queue, the FootyWatchService timers and the three watchlist handlers.   *)
(*                                                                         *)
(* Numbers.  Every real number x of the program (a probability, a          *)
(* threshold, a delta in percentage points) is the integer 1000 * x, so    *)
(* 0.56 is 560, the threshold 3 is 3000, and (0.56 - 0.50) * 100 is        *)
(* (560 - 500) * 100 = 6000.  Arithmetic is exact; the rounding of IEEE    *)
(* doubles is not modelled.                                                *)
(*                                                                         *)
(* Atomicity.  JavaScript runs the code between two awaits without         *)
(* interruption, so every action is one such stretch: from the start of a  *)
(* handler or a resumption after an await, to the next await or return.    *)
(***************************************************************************)
EXTENDS Integers, Sequences, FiniteSets

\* ------------------------------------------------------------------ bounds
MaxPolls == 2        \* pollWatchedEvents invocations in flight at once
MaxServices == 2     \* FootyWatchService instances ever constructed
MaxWatchCalls == 1   \* WATCH_MATCH handlers suspended in their baseline fetch
MaxAlerts == 1       \* alerts pushed in one behaviour
MaxDrainAlerts == 6  \* the same, where the queue has to outgrow one drain
MaxBurstAlerts == 2  \* the same, where one tick or one drain has to see two alerts

\* -------------------------------------------------------- program constants
undefined == -1
FetchError == -2
DefaultThresholdPct == 3000
DrainLimit == 5

\* --------------------------------------------------- getMatchProbabilities
\* Array.prototype.indexOf: the 0-based position, -1 when absent.
indexOf(arr, x) ==
    IF \E i \in 1..Len(arr) : arr[i] = x
    THEN (CHOOSE i \in 1..Len(arr) : arr[i] = x /\ \A j \in 1..(i - 1) : arr[j] # x) - 1
    ELSE -1

\* The probability of an outcome in the pmf of a snapshot: pmf.probs at the
\* position of the outcome, 0 when the pmf has no such outcome.  (The pmfs
\* here have a probability for every outcome they list.)
ProbOf(pmf, outcome) ==
    IF indexOf(pmf.outcomes, outcome) >= 0
    THEN pmf.probs[indexOf(pmf.outcomes, outcome) + 1]
    ELSE 0

\* The three probabilities getMatchProbabilities returns for a snapshot.
getMatchProbabilities(pmf) ==
    [homeWinProb |-> ProbOf(pmf, "HOME"), drawProb |-> ProbOf(pmf, "DRAW"),
     awayWinProb |-> ProbOf(pmf, "AWAY")]

\* The pmfs of the snapshots the source returns in the Odd environment: a
\* usual one, one without the HOME outcome, and one with a value above 1.
Pmfs ==
    {[outcomes |-> <<"HOME", "DRAW", "AWAY">>, probs |-> <<500, 250, 250>>],
     [outcomes |-> <<"DRAW", "AWAY">>, probs |-> <<500, 500>>],
     [outcomes |-> <<"HOME", "DRAW", "AWAY">>, probs |-> <<1200, 250, 250>>]}

\* ------------------------------------------------------------------ inputs
\* An environment u says what may happen in a behaviour: the texts the
\* WATCH_MATCH and UNWATCH_MATCH handlers get, what a fetch returns, how much
\* runs at once, and which steps and histories are recorded in the history
\* variables (trace).  Every environment has a text without an eventKey, the
\* watch command of the README.
Directions == {"up", "down", "any"}

\* Two watched events with default watches, one tick at a time.
Wide ==
    [watchTexts |-> {"watch ev_1", "watch eventKey ev_2", "watch Arsenal vs Chelsea 5%"},
     unwatchTexts |-> {"unwatch ev_1", "unwatch eventKey ev_2", "unwatch Arsenal vs Chelsea"},
     results |-> {500, 540, FetchError}, polls |-> 1, services |-> 1,
     alerts |-> MaxAlerts, trace |-> {"poll"}]

\* One watched event of direction any with the default and the zero
\* threshold, and moves of 0, 2 and 4 percentage points.
Deep ==
    [watchTexts |-> {"watch ev_1", "watch ev_1 0%", "watch Arsenal vs Chelsea 5%"},
     unwatchTexts |-> {"unwatch ev_1", "unwatch Arsenal vs Chelsea"},
     results |-> {500, 520, 540}, polls |-> 1, services |-> 1,
     alerts |-> MaxAlerts, trace |-> {"poll", "older"}]

\* One watched event with every direction, and moves of 0 and 4 points.
Turn ==
    [watchTexts |-> {"watch ev_1", "watch ev_1 0%", "watch ev_1 up",
                     "watch ev_1 0% if it rises", "watch ev_1 down",
                     "watch ev_1 below 0%", "watch Arsenal vs Chelsea 5%"},
     unwatchTexts |-> {"unwatch ev_1", "unwatch Arsenal vs Chelsea"},
     results |-> {500, 540}, polls |-> 1, services |-> 1,
     alerts |-> MaxAlerts, trace |-> {"poll"}]

\* One watched event that alerts on every move of 2 points, and a long queue.
Long ==
    [watchTexts |-> {"watch ev_1 2%", "watch Arsenal vs Chelsea 5%"},
     unwatchTexts |-> {"unwatch ev_1", "unwatch Arsenal vs Chelsea"},
     results |-> {500, 540}, polls |-> 1, services |-> 1,
     alerts |-> MaxDrainAlerts, trace |-> {"list"}]

\* One watched event, several service instances and ticks in flight.
Many ==
    [watchTexts |-> {"watch ev_1", "watch Arsenal vs Chelsea 5%"},
     unwatchTexts |-> {"unwatch ev_1", "unwatch Arsenal vs Chelsea"},
     results |-> {500, 540, FetchError}, polls |-> MaxPolls, services |-> MaxServices,
     alerts |-> MaxAlerts, trace |-> {"start", "stop", "tick", "poll"}]

\* One watched event through unwatch and watch again.
Again ==
    [watchTexts |-> {"watch ev_1", "watch Arsenal vs Chelsea 5%"},
     unwatchTexts |-> {"unwatch ev_1", "unwatch Arsenal vs Chelsea"},
     results |-> {500, 540, FetchError}, polls |-> 1, services |-> 1,
     alerts |-> MaxAlerts, trace |-> {"poll", "unwatch", "rewatch"}]

\* One watched event, watched with several thresholds and directions, and an
\* unwatch of an event that is never watched; every handler step is recorded.
Talk ==
    [watchTexts |-> {"watch ev_1", "watch ev_1 5%", "watch ev_1 up abc%",
                     "watch ev_1 down 2.5%", "watch Arsenal vs Chelsea 5%"},
     unwatchTexts |-> {"unwatch ev_1", "unwatch eventKey ev_2",
                       "unwatch Arsenal vs Chelsea"},
     results |-> {500, 520, 540}, polls |-> 1, services |-> 1,
     alerts |-> MaxAlerts, trace |-> {"watch", "unwatch", "poll"}]

\* One watched event whose fetches return what getMatchProbabilities makes of
\* the pmfs of the source.
Odd ==
    [watchTexts |-> {"watch ev_1", "watch Arsenal vs Chelsea 5%"},
     unwatchTexts |-> {"unwatch ev_1", "unwatch Arsenal vs Chelsea"},
     results |-> {getMatchProbabilities(pmf).homeWinProb : pmf \in Pmfs},
     polls |-> 1, services |-> 1, alerts |-> MaxAlerts, trace |-> {"poll"}]

\* Two watched events that are never unwatched, ticks in flight up to the
\* bound, and fetches of a tick that never return.
Live ==
    [watchTexts |-> {"watch ev_1", "watch eventKey ev_2", "watch Arsenal vs Chelsea 5%"},
     unwatchTexts |-> {"unwatch eventKey ev_3", "unwatch Arsenal vs Chelsea"},
     results |-> {500}, polls |-> MaxPolls, services |-> 1,
     alerts |-> MaxAlerts, trace |-> {"tick", "poll"}]

\* One watched event that alerts on every move of 2 points, with the
\* history of all pushes and all drains.
Flow ==
    [watchTexts |-> {"watch ev_1 2%", "watch Arsenal vs Chelsea 5%"},
     unwatchTexts |-> {"unwatch ev_1", "unwatch Arsenal vs Chelsea"},
     results |-> {500, 540}, polls |-> 1, services |-> 1,
     alerts |-> MaxDrainAlerts, trace |-> {"list", "queue"}]

\* Two events watched and unwatched while a tick is in flight, with the
\* history of every tick.
Snap ==
    [watchTexts |-> {"watch ev_1", "watch eventKey ev_2", "watch Arsenal vs Chelsea 5%"},
     unwatchTexts |-> {"unwatch ev_1", "unwatch Arsenal vs Chelsea"},
     results |-> {500}, polls |-> 1, services |-> 1,
     alerts |-> MaxAlerts, trace |-> {"poll", "snapshot"}]

\* One watched event that alerts on every move of 4 points, unwatched and
\* watched again while a tick is in flight, with the alerts of every tick.
Twice ==
    [watchTexts |-> {"watch ev_1", "watch Arsenal vs Chelsea 5%"},
     unwatchTexts |-> {"unwatch ev_1", "unwatch Arsenal vs Chelsea"},
     results |-> {500, 540}, polls |-> 1, services |-> 1,
     alerts |-> MaxBurstAlerts, trace |-> {"poll", "burst"}]

\* Two watched events that alert on every move of 4 points, one of them
\* unwatched and watched again, and the drains.
Rank ==
    [watchTexts |-> {"watch ev_1", "watch eventKey ev_2", "watch Arsenal vs Chelsea 5%"},
     unwatchTexts |-> {"unwatch ev_1", "unwatch Arsenal vs Chelsea"},
     results |-> {500, 540}, polls |-> 1, services |-> 1,
     alerts |-> MaxBurstAlerts, trace |-> {"poll", "list", "order"}]

\* One watched event, watched again with another threshold, whose baseline
\* fetches may fail; both steps of the WATCH_MATCH handler are recorded.
Base ==
    [watchTexts |-> {"watch ev_1", "watch ev_1 5%", "watch Arsenal vs Chelsea 5%"},
     unwatchTexts |-> {"unwatch ev_1", "unwatch Arsenal vs Chelsea"},
     results |-> {500, 540, FetchError}, polls |-> 1, services |-> 1,
     alerts |-> MaxAlerts, trace |-> {"watch", "watched", "poll"}]

Environments ==
    {Wide, Deep, Turn, Long, Many, Again, Talk, Odd, Live, Flow, Snap, Twice, Rank,
     Base}

VARIABLES
    watchlist,              \* Map eventKey -> watch, as the sequence of its values in insertion order
    lastHomeProbByEventKey, \* Map eventKey -> number
    pendingWatchAlerts,     \* string[]
    watchPollerStarted,     \* boolean
    timers,                 \* per FootyWatchService instance: its `timer` field
    polls,                  \* pollWatchedEvents invocations suspended in a fetch
    watchCalls,             \* WATCH_MATCH handlers suspended in the baseline fetch
    pushed,                 \* history: number of alerts pushed so far
    returnedIds,            \* history: ids of the alerts LIST_WATCHES has shown
    staleBaseline,          \* history: keys whose stored baseline predates an unwatch of the key
    rewatch,                \* history ("rewatch"): per key, "unwatched" once it was unwatched,
                            \*   "rewatched" once a watch begun after that has completed
    older,                  \* history ("older"): per key, the baseline that the stored one replaced
    lookup,                 \* a call of findLeaseFromText: its arguments, then also its result
    hung,                   \* history: the keys with a fetch of a tick that never returns
    allPushed,              \* history ("queue"): every alert pushed, in push order
    allDrained,             \* history ("queue"): every alert LIST_WATCHES has shown, in order
    ticks,                  \* history, per invocation of pollWatchedEvents.  "snapshot": the keys
                            \*   registered when it began, the keys it has issued a fetch for,
                            \*   and whether it has issued a second fetch for one of them;
                            \*   "burst": the keys it has queued an alert for, and whether it
                            \*   has queued a second alert for one of them; "order": whether
                            \*   the Map entry whose fetch it is suspended in has been deleted
    failedWatch,            \* history ("watched"): the keys for which a WATCH_MATCH handler
                            \*   has failed its baseline fetch with no successful fetch and no
                            \*   unwatch of the key since
    last                    \* history: the step just taken and what it did, for the traced steps

vars == <<watchlist, lastHomeProbByEventKey, pendingWatchAlerts, watchPollerStarted,
          timers, polls, watchCalls, pushed, returnedIds, staleBaseline, rewatch,
          older, lookup, hung, allPushed, allDrained, ticks, failedWatch, last>>

PollIds == 1..MaxPolls
ServiceIds == 1..MaxServices
WatchCallIds == 1..MaxWatchCalls
Idle == [pc |-> "idle"]
NoTick ==
    [keys |-> {}, fetched |-> {}, twice |-> FALSE, alerted |-> {}, again |-> FALSE,
     removed |-> FALSE]
null == "null"

\* The record of a step, kept when the environment traces that kind of step.
Trace(u, step) == IF step.op \in u.trace THEN step ELSE [op |-> "other"]

\* ------------------------------------------------------------- Map helpers
Abs(x) == IF x < 0 THEN -x ELSE x

Min(a, b) == IF a < b THEN a ELSE b

\* Position of eventKey in the registry, 0 when absent.
IndexOf(list, eventKey) ==
    IF \E i \in 1..Len(list) : list[i].eventKey = eventKey
    THEN CHOOSE i \in 1..Len(list) : list[i].eventKey = eventKey
    ELSE 0

MapHas(list, eventKey) == IndexOf(list, eventKey) # 0

\* As if set added an entry for a key that has one.
MapSet_Append(list, watch) == Append(list, watch)

\* Map.prototype.set: an existing key keeps its place and gets the new value,
\* a new key is appended.
MapSet(list, watch) ==
    IF MapHas(list, watch.eventKey)
    THEN [list EXCEPT ![IndexOf(list, watch.eventKey)] = watch]
    ELSE Append(list, watch)

\* Map.prototype.delete.
MapDelete(list, eventKey) ==
    IF MapHas(list, eventKey)
    THEN [i \in 1..(Len(list) - 1) |->
            IF i < IndexOf(list, eventKey) THEN list[i] ELSE list[i + 1]]
    ELSE list

\* Array.prototype.splice(start, count) on a 0-based start: the removed
\* elements and what is left.
SpliceRemoved(arr, start, count) ==
    SubSeq(arr, start + 1, Min(Len(arr), start + count))

SpliceRest(arr, start, count) ==
    SubSeq(arr, 1, start) \o SubSeq(arr, Min(Len(arr), start + count) + 1, Len(arr))

\* ------------------------------------------------------------------ strings
\* A text is a string; its characters are its substrings of length 1.
UpperCase == "ABCDEFGHIJKLMNOPQRSTUVWXYZ"
LowerCase == "abcdefghijklmnopqrstuvwxyz"
DigitChars == "0123456789"

CharAt(s, i) == SubSeq(s, i, i)

CharsOf(s) == {CharAt(s, i) : i \in 1..Len(s)}

\* Position of the character c in s, 0 when absent.
PosIn(s, c) ==
    IF \E i \in 1..Len(s) : CharAt(s, i) = c
    THEN CHOOSE i \in 1..Len(s) : CharAt(s, i) = c
    ELSE 0

\* The character classes of the regular expressions: \d, \w, \s and
\* [a-zA-Z0-9_:\-.].
IsDigit(c) == c \in CharsOf(DigitChars)

IsWordChar(c) == c \in CharsOf(UpperCase) \cup CharsOf(LowerCase) \cup CharsOf(DigitChars) \cup {"_"}

IsSpace(c) == c \in {" ", "\t", "\n"}

IsKeyChar(c) == IsWordChar(c) \/ c \in {":", "-", "."}

\* String.prototype.toLowerCase, on the ASCII letters.
RECURSIVE toLowerCase(_)
toLowerCase(s) ==
    IF s = "" THEN ""
    ELSE (IF PosIn(UpperCase, Head(s)) # 0
          THEN CharAt(LowerCase, PosIn(UpperCase, Head(s)))
          ELSE Head(s)) \o toLowerCase(Tail(s))

\* String.prototype.includes
includes(s, word) ==
    \E i \in 0..(Len(s) - Len(word)) : SubSeq(s, i + 1, i + Len(word)) = word

\* String.prototype.split on a one-character separator.
RECURSIVE split(_, _)
split(s, sep) ==
    IF PosIn(s, sep) = 0 THEN <<s>>
    ELSE <<SubSeq(s, 1, PosIn(s, sep) - 1)>> \o split(SubSeq(s, PosIn(s, sep) + 1, Len(s)), sep)

\* \b at the place before position i of s.
WordBoundary(s, i) ==
    (i > 1 /\ IsWordChar(CharAt(s, i - 1))) # (i <= Len(s) /\ IsWordChar(CharAt(s, i)))

\* The first position from i on whose character is not white space.
RECURSIVE SkipSpaces(_, _)
SkipSpaces(s, i) ==
    IF i <= Len(s) /\ IsSpace(CharAt(s, i)) THEN SkipSpaces(s, i + 1) ELSE i

\* The first position from i on whose character is not one of [a-zA-Z0-9_:\-.].
RECURSIVE KeyRunEnd(_, _)
KeyRunEnd(s, i) ==
    IF i <= Len(s) /\ IsKeyChar(CharAt(s, i)) THEN KeyRunEnd(s, i + 1) ELSE i

\* The first position from i on whose character is not a digit.
RECURSIVE DigitRunEnd(_, _)
DigitRunEnd(s, i) ==
    IF i <= Len(s) /\ IsDigit(CharAt(s, i)) THEN DigitRunEnd(s, i + 1) ELSE i

\* The least element of a non-empty set of positions.
First(positions) == CHOOSE i \in positions : \A j \in positions : i <= j

\* -------------------------------------------------------- extractEventKey
\* /eventKey\s*[:=]?\s*([a-zA-Z0-9_:\-.]+)/i matched with "eventKey" at
\* position i: the captured group, "" when there is no match there.  The
\* optional [:=] is given up when no key character follows it.
LabelledKeyAt(text, i) ==
    IF i + 7 > Len(text) \/ toLowerCase(SubSeq(text, i, i + 7)) # "eventkey" THEN ""
    ELSE LET a == SkipSpaces(text, i + 8)
             c == SkipSpaces(text, a + 1)
         IN IF a <= Len(text) /\ CharAt(text, a) \in {":", "="}
               /\ KeyRunEnd(text, c) > c
            THEN SubSeq(text, c, KeyRunEnd(text, c) - 1)
            ELSE SubSeq(text, a, KeyRunEnd(text, a) - 1)

\* /\b(ev_[a-zA-Z0-9_:\-.]+)\b/i matched from position i: the captured
\* group, "" when there is no match there.  The run of key characters is
\* given back until it ends at a word boundary.
BareKeyAt(text, i) ==
    IF i + 2 > Len(text) \/ toLowerCase(SubSeq(text, i, i + 2)) # "ev_"
       \/ ~WordBoundary(text, i) THEN ""
    ELSE LET ends == {j \in (i + 4)..KeyRunEnd(text, i + 3) : WordBoundary(text, j)}
         IN IF ends = {} THEN ""
            ELSE SubSeq(text, i, (CHOOSE j \in ends : \A k \in ends : k <= j) - 1)

\* text.match(first) || text.match(second), then match?.[1] || null.  The
\* null of the program is the constant null of this module.
extractEventKey(text) ==
    LET labelled == {i \in 1..Len(text) : LabelledKeyAt(text, i) # ""}
        bare == {i \in 1..Len(text) : BareKeyAt(text, i) # ""}
    IN IF labelled # {} THEN LabelledKeyAt(text, First(labelled))
       ELSE IF bare # {} THEN BareKeyAt(text, First(bare))
       ELSE null

\* ------------------------------------------------------ findLeaseFromText
\* A lease without the optional eventKey field has eventKey NoEventKey; the
\* null that findLeaseFromText returns is NoLease.
NoEventKey == ""
NoLease == [leaseId |-> null]

\* As if a word of 3 characters counted.
TeamMatch_ThreeChars(content, team) ==
    LET words == split(toLowerCase(team), " ")
    IN \E i \in 1..Len(words) : Len(words[i]) >= 3 /\ includes(content, words[i])

\* words.some((word) => word.length > 3 && content.includes(word)) on the
\* words of the lower-cased team name.
TeamMatch(content, team) ==
    LET words == split(toLowerCase(team), " ")
    IN \E i \in 1..Len(words) : Len(words[i]) > 3 /\ includes(content, words[i])

\* As if the loop over the team names came before the explicit key.
FindOrder_FuzzyFirst == <<"fuzzy", "explicit">>

\* The order of the two searches in findLeaseFromText.
FindOrder == <<"explicit", "fuzzy">>

\* The positions in leases that a search selects.
Selected(search, leases, text) ==
    IF search = "explicit"
    THEN {i \in 1..Len(leases) :
            /\ extractEventKey(text) # null
            /\ \/ leases[i].eventKey = extractEventKey(text)
               \/ leases[i].leaseId = extractEventKey(text)}
    ELSE {i \in 1..Len(leases) :
            /\ TeamMatch(toLowerCase(text), leases[i].homeTeam)
            /\ TeamMatch(toLowerCase(text), leases[i].awayTeam)}

findLeaseFromText(leases, text) ==
    IF Selected(FindOrder[1], leases, text) # {}
    THEN leases[First(Selected(FindOrder[1], leases, text))]
    ELSE IF Selected(FindOrder[2], leases, text) # {}
    THEN leases[First(Selected(FindOrder[2], leases, text))]
    ELSE NoLease

\* ------------------------------------------- the texts of the watch handlers
\* The lower-cased text has word at position i.
HasAt(text, i, word) ==
    i + Len(word) - 1 <= Len(text) /\ toLowerCase(SubSeq(text, i, i + Len(word) - 1)) = word

\* The value of a string of digits.
RECURSIVE DigitsValue(_)
DigitsValue(s) ==
    IF s = "" THEN 0
    ELSE 10 * DigitsValue(SubSeq(s, 1, Len(s) - 1)) + (PosIn(DigitChars, CharAt(s, Len(s))) - 1)

\* Number(s) for s of the form \d+(\.\d+)?, times 1000; digits after the
\* third decimal are dropped.
Number(s) ==
    IF PosIn(s, ".") = 0 THEN 1000 * DigitsValue(s)
    ELSE 1000 * DigitsValue(SubSeq(s, 1, PosIn(s, ".") - 1))
         + DigitsValue(SubSeq(SubSeq(s, PosIn(s, ".") + 1, Len(s)) \o "000", 1, 3))

\* \s?% matches at position i.
PercentAt(text, i) ==
    \/ (i <= Len(text) /\ CharAt(text, i) = "%")
    \/ (i + 1 <= Len(text) /\ IsSpace(CharAt(text, i)) /\ CharAt(text, i + 1) = "%")

\* /(\d{1,2}(?:\.\d+)?)\s?%/ matched from position i with n digits before the
\* point: the position after the captured group, 0 when there is no match.
ThresholdEndAt(text, i, n) ==
    IF DigitRunEnd(text, i) < i + n THEN 0
    ELSE LET p == i + n
             q == DigitRunEnd(text, p + 1)
         IN IF p <= Len(text) /\ CharAt(text, p) = "." /\ q > p + 1 /\ PercentAt(text, q)
            THEN q
            ELSE IF PercentAt(text, p) THEN p ELSE 0

\* The captured group of the leftmost match, two digits tried before one;
\* "" when the text has no match.
ThresholdToken(text) ==
    LET starts == {i \in 1..Len(text) :
                      ThresholdEndAt(text, i, 2) # 0 \/ ThresholdEndAt(text, i, 1) # 0}
    IN IF starts = {} THEN ""
       ELSE LET i == First(starts)
            IN IF ThresholdEndAt(text, i, 2) # 0
               THEN SubSeq(text, i, ThresholdEndAt(text, i, 2) - 1)
               ELSE SubSeq(text, i, ThresholdEndAt(text, i, 1) - 1)

\* As if a text without a threshold token gave the threshold 0.
ParseThresholdPct_Zero(text) ==
    IF ThresholdToken(text) = "" THEN 0 ELSE Number(ThresholdToken(text))

\* thresholdMatch ? Number(thresholdMatch[1]) : undefined
ParseThresholdPct(text) ==
    IF ThresholdToken(text) = "" THEN undefined ELSE Number(ThresholdToken(text))

\* /\bdown|drop|below\b/i.test(text): the alternatives are \bdown, drop and
\* below\b.
TestDown(text) ==
    \E i \in 1..Len(text) :
        \/ (WordBoundary(text, i) /\ HasAt(text, i, "down"))
        \/ HasAt(text, i, "drop")
        \/ (HasAt(text, i, "below") /\ WordBoundary(text, i + 5))

\* /\bup|rise|above\b/i.test(text)
TestUp(text) ==
    \E i \in 1..Len(text) :
        \/ (WordBoundary(text, i) /\ HasAt(text, i, "up"))
        \/ HasAt(text, i, "rise")
        \/ (HasAt(text, i, "above") /\ WordBoundary(text, i + 5))

ParseDirection(text) ==
    IF TestDown(text) THEN "down" ELSE IF TestUp(text) THEN "up" ELSE "any"

\* What the handlers read from each text the environments have, computed
\* once: WATCH_MATCH its eventKey, threshold and direction, UNWATCH_MATCH
\* its eventKey.
WatchCommand ==
    [text \in UNION {u.watchTexts : u \in Environments} |->
        [eventKey |-> extractEventKey(text), thresholdPct |-> ParseThresholdPct(text),
         direction |-> ParseDirection(text)]]

UnwatchCommand ==
    [text \in UNION {u.unwatchTexts : u \in Environments} |-> extractEventKey(text)]

\* The keys of the two Maps in a behaviour: every eventKey a text has.
EventKeys ==
    ({WatchCommand[text].eventKey : text \in DOMAIN WatchCommand}
        \cup {UnwatchCommand[text] : text \in DOMAIN UnwatchCommand}) \ {null}

\* --------------------------------------------------------- maybeQueueAlert
DeltaPctPoints(prev, next) == (next - prev) * 100

\* As if written thresholdPct || 3.
EffectiveThreshold_Or(thresholdPct) ==
    IF thresholdPct = undefined \/ thresholdPct = 0 THEN DefaultThresholdPct
    ELSE thresholdPct

\* thresholdPct ?? 3
EffectiveThreshold(thresholdPct) ==
    IF thresholdPct = undefined THEN DefaultThresholdPct ELSE thresholdPct

\* As if the two direction tests were exchanged.
DirectionPass_Swapped(direction, deltaPctPoints) ==
    \/ direction = "any"
    \/ (direction = "up" /\ deltaPctPoints < 0)
    \/ (direction = "down" /\ deltaPctPoints > 0)

\* As if the two direction tests were >= 0 and <= 0.
DirectionPass_OrEqual(direction, deltaPctPoints) ==
    \/ direction = "any"
    \/ (direction = "up" /\ deltaPctPoints >= 0)
    \/ (direction = "down" /\ deltaPctPoints <= 0)

DirectionPass(direction, deltaPctPoints) ==
    \/ direction = "any"
    \/ (direction = "up" /\ deltaPctPoints > 0)
    \/ (direction = "down" /\ deltaPctPoints < 0)

ShouldAlert(prev, next, thresholdPct, direction) ==
    /\ DirectionPass(direction, DeltaPctPoints(prev, next))
    /\ Abs(DeltaPctPoints(prev, next)) >= EffectiveThreshold(thresholdPct)

\* The alert text, as the values it is formatted from; id is history (the
\* number of the push), so that two equal texts are still two alerts.
AlertText(eventKey, prev, next, id) ==
    [eventKey |-> eventKey, delta |-> DeltaPctPoints(prev, next),
     before |-> prev, after |-> next, id |-> id]

MaybeQueueAlert(queue, eventKey, prev, next, thresholdPct, direction, id) ==
    IF ShouldAlert(prev, next, thresholdPct, direction)
    THEN Append(queue, AlertText(eventKey, prev, next, id))
    ELSE queue

\* ------------------------------------------------------------------- Init
Init ==
    /\ watchlist = <<>>
    /\ lastHomeProbByEventKey = [k \in EventKeys |-> undefined]
    /\ pendingWatchAlerts = <<>>
    /\ watchPollerStarted = FALSE
    /\ timers = [s \in ServiceIds |-> "unconstructed"]
    /\ polls = [t \in PollIds |-> Idle]
    /\ watchCalls = [h \in WatchCallIds |-> Idle]
    /\ pushed = 0
    /\ returnedIds = {}
    /\ staleBaseline = {}
    /\ rewatch = [k \in EventKeys |-> "never"]
    /\ older = [k \in EventKeys |-> undefined]
    /\ lookup = Idle
    /\ hung = {}
    /\ allPushed = <<>>
    /\ allDrained = <<>>
    /\ ticks = [t \in PollIds |-> NoTick]
    /\ failedWatch = {}
    /\ last = [op |-> "init"]

\* The arguments of a call of findLeaseFromText: a candidate listing and a
\* text of the user.
Arsenal_Chelsea ==
    [leaseId |-> "lease-1", eventKey |-> "ev_1", homeTeam |-> "Arsenal",
     awayTeam |-> "Chelsea"]

Manchester_Derby ==
    [leaseId |-> "lease-2", eventKey |-> "ev_2", homeTeam |-> "Manchester United",
     awayTeam |-> "Manchester City"]

Real_Chelsea ==
    [leaseId |-> "lease-3", eventKey |-> NoEventKey, homeTeam |-> "Real Madrid",
     awayTeam |-> "Chelsea FC"]

Ajax_PSV ==
    [leaseId |-> "lease-4", eventKey |-> "ev_4", homeTeam |-> "Ajax",
     awayTeam |-> "PSV"]

Arsenal_Chelsea_Women ==
    [leaseId |-> "lease-5", eventKey |-> "ev_5", homeTeam |-> "Arsenal Women",
     awayTeam |-> "Chelsea Women"]

Listings ==
    {<<>>, <<Arsenal_Chelsea>>, <<Arsenal_Chelsea, Manchester_Derby>>,
     <<Manchester_Derby, Arsenal_Chelsea>>, <<Real_Chelsea, Arsenal_Chelsea>>,
     <<Arsenal_Chelsea, Real_Chelsea, Manchester_Derby>>,
     <<Real_Chelsea, Arsenal_Chelsea, Arsenal_Chelsea_Women>>,
     <<Ajax_PSV, Real_Chelsea, Arsenal_Chelsea, Manchester_Derby>>}

LookupTexts ==
    {"", "who wins tonight", "odds for Arsenal vs Chelsea", "ARSENAL CHELSEA",
     "chelsea", "real or chelsea", "the manchester derby", "ajax psv",
     "odds eventKey ev_2 for Arsenal vs Chelsea", "eventKey: lease-3 arsenal chelsea",
     "ev_9 arsenal chelsea", "EV_1 united city", "probability ev_1",
     "eventKey=ev_4 real chelsea", "the eventKey for ev_2 arsenal chelsea"}

\* The state before a call of findLeaseFromText.
InitFind ==
    /\ watchlist = <<>>
    /\ lastHomeProbByEventKey = [k \in EventKeys |-> undefined]
    /\ pendingWatchAlerts = <<>>
    /\ watchPollerStarted = FALSE
    /\ timers = [s \in ServiceIds |-> "unconstructed"]
    /\ polls = [t \in PollIds |-> Idle]
    /\ watchCalls = [h \in WatchCallIds |-> Idle]
    /\ pushed = 0
    /\ returnedIds = {}
    /\ staleBaseline = {}
    /\ rewatch = [k \in EventKeys |-> "never"]
    /\ older = [k \in EventKeys |-> undefined]
    /\ lookup \in [pc : {"call"}, leases : Listings, text : LookupTexts]
    /\ hung = {}
    /\ allPushed = <<>>
    /\ allDrained = <<>>
    /\ ticks = [t \in PollIds |-> NoTick]
    /\ failedWatch = {}
    /\ last = [op |-> "init"]

\* The call returns.
FindLease ==
    /\ lookup.pc = "call"
    /\ lookup' = [pc |-> "return", leases |-> lookup.leases, text |-> lookup.text,
                  lease |-> findLeaseFromText(lookup.leases, lookup.text)]
    /\ UNCHANGED <<watchlist, lastHomeProbByEventKey, pendingWatchAlerts,
                   watchPollerStarted, timers, polls, watchCalls, pushed, returnedIds,
                   staleBaseline, rewatch, older, hung, allPushed, allDrained, ticks,
                   failedWatch, last>>

\* ------------------------------------------------------ FootyWatchService
\* startLoop on instance s.
StartLoop(t, s) ==
    IF t[s] = "set" THEN t ELSE [t EXCEPT ![s] = "set"]

\* static start: a new instance, then startLoop on it.
Start(u) ==
    /\ \E s \in 1..u.services :
        /\ timers[s] = "unconstructed"
        /\ \A r \in ServiceIds : r < s => timers[r] # "unconstructed"
        /\ timers' = StartLoop([timers EXCEPT ![s] = "null"], s)
        /\ last' = Trace(u, [op |-> "start", service |-> s])
    /\ watchPollerStarted' = TRUE
    /\ UNCHANGED <<failedWatch, lookup, hung, allPushed, allDrained, ticks,
                   watchlist, lastHomeProbByEventKey, pendingWatchAlerts, polls,
                   watchCalls, pushed, returnedIds, staleBaseline, rewatch, older>>

\* clearInterval and this.timer = null, when the timer is set.
StopTimer(t, s) ==
    IF t[s] = "set" THEN [t EXCEPT ![s] = "null"] ELSE t

\* stop on instance s; static stop calls it on the instance the runtime holds.
Stop(s, u) ==
    /\ timers[s] # "unconstructed"
    /\ timers' = StopTimer(timers, s)
    /\ watchPollerStarted' = FALSE
    /\ last' = Trace(u, [op |-> "stop", service |-> s])
    /\ UNCHANGED <<failedWatch, lookup, hung, allPushed, allDrained, ticks,
                   watchlist, lastHomeProbByEventKey, pendingWatchAlerts, polls,
                   watchCalls, pushed, returnedIds, staleBaseline, rewatch, older>>

\* static stop when the runtime holds no instance: service?.stop() does nothing.
StopNoService(u) ==
    /\ \A s \in ServiceIds : timers[s] = "unconstructed"
    /\ last' = Trace(u, [op |-> "stop", service |-> 0])
    /\ UNCHANGED <<failedWatch, lookup, hung, allPushed, allDrained, ticks,
                   watchlist, lastHomeProbByEventKey, pendingWatchAlerts,
                   watchPollerStarted, timers, polls, watchCalls, pushed, returnedIds,
                   staleBaseline, rewatch, older>>

\* ------------------------------------------------------ pollWatchedEvents
\* A slot for an invocation: setInterval calls pollWatchedEvents whether or
\* not earlier invocations have returned.
FreePoll(t) ==
    /\ polls[t].pc = "idle"
    /\ \A r \in PollIds : r < t => polls[r].pc # "idle"

\* As if the loop went over watchlist.keys() and evaluated every key with
\* the default threshold and direction.
NextWatch_KeysOnly(list, done) ==
    IF done < Len(list)
    THEN [pc |-> "fetch",
          watch |-> [eventKey |-> list[done + 1].eventKey, thresholdPct |-> undefined,
                     direction |-> "any"],
          idx |-> done + 1]
    ELSE Idle

\* As if the loop went over the values newest first.
NextWatch_Newest(list, done) ==
    IF done < Len(list)
    THEN [pc |-> "fetch", watch |-> list[Len(list) - done], idx |-> done + 1]
    ELSE Idle

\* The for-of step over watchlist.values(): after `done` values, the next
\* value of the live Map iterator, or Idle when the iterator is exhausted.
NextWatch(list, done) ==
    IF done < Len(list)
    THEN [pc |-> "fetch", watch |-> list[done + 1], idx |-> done + 1]
    ELSE Idle

\* The eventKey whose fetch the invocation is suspended in, null when it has
\* ended.
IssuedKey(poll) == IF poll.pc = "fetch" THEN poll.watch.eventKey ELSE null

\* The interval callback of instance s: pollWatchedEvents up to its first await.
TimerFire(s, u) ==
    /\ timers[s] = "set"
    /\ IF Len(watchlist) = 0
       THEN /\ polls' = polls
            /\ ticks' = ticks
            /\ last' = Trace(u, [op |-> "tick", service |-> s, started |-> FALSE,
                                 issued |-> null])
       ELSE \E t \in 1..u.polls :
            /\ FreePoll(t)
            /\ polls' = [polls EXCEPT ![t] = NextWatch(watchlist, 0)]
            /\ ticks' = IF "snapshot" \in u.trace
                        THEN [ticks EXCEPT ![t] =
                                [NoTick EXCEPT
                                    !.keys = {watchlist[i].eventKey : i \in 1..Len(watchlist)},
                                    !.fetched = {watchlist[1].eventKey}]]
                        ELSE [ticks EXCEPT ![t] = NoTick]
            /\ last' = Trace(u, [op |-> "tick", service |-> s, started |-> TRUE,
                                 issued |-> IssuedKey(NextWatch(watchlist, 0))])
    /\ UNCHANGED <<failedWatch, lookup, hung, allPushed, allDrained,
                   watchlist, lastHomeProbByEventKey, pendingWatchAlerts,
                   watchPollerStarted, timers, watchCalls, pushed, returnedIds,
                   staleBaseline, rewatch, older>>

\* As if written lastHomeProbByEventKey.get(...) ?? 0, with no typeof test.
QueueAfterFetch_NoTypeof(queue, watch, prev, next, id) ==
    MaybeQueueAlert(queue, watch.eventKey, IF prev = undefined THEN 0 ELSE prev, next,
                    watch.thresholdPct, watch.direction, id)

\* The typeof test and the call of maybeQueueAlert after a successful fetch.
QueueAfterFetch(queue, watch, prev, next, id) ==
    IF prev # undefined
    THEN MaybeQueueAlert(queue, watch.eventKey, prev, next, watch.thresholdPct,
                         watch.direction, id)
    ELSE queue

\* As if the baseline were set once and kept, to accumulate the drift.
BaselineAfterFetch_KeepFirst(baseline, eventKey, next) ==
    IF baseline[eventKey] = undefined THEN [baseline EXCEPT ![eventKey] = next]
    ELSE baseline

\* lastHomeProbByEventKey.set(watch.eventKey, probs.homeWinProb)
BaselineAfterFetch(baseline, eventKey, next) ==
    [baseline EXCEPT ![eventKey] = next]

\* As if the try enclosed the loop: an error ends the tick.
AfterFetch_Abort(list, poll, result) ==
    IF result = FetchError THEN Idle ELSE NextWatch(list, poll.idx)

\* The try is inside the loop: after the body or the catch, the next watch.
AfterFetch(list, poll, result) == NextWatch(list, poll.idx)

\* The fetch of poll t returns: the rest of the loop body, then the loop
\* goes on to the next watch and suspends in its fetch, or ends.
PollFetchReturns(t, result, u) ==
    /\ polls[t].pc = "fetch"
    /\ LET watch == polls[t].watch
           prev == lastHomeProbByEventKey[watch.eventKey]
           queue == IF result = FetchError THEN pendingWatchAlerts
                    ELSE QueueAfterFetch(pendingWatchAlerts, watch, prev, result, pushed + 1)
           queued == Len(queue) - Len(pendingWatchAlerts)
       IN /\ pushed + queued <= u.alerts
          /\ pendingWatchAlerts' = queue
          /\ pushed' = pushed + queued
          /\ lastHomeProbByEventKey' =
                IF result = FetchError THEN lastHomeProbByEventKey
                ELSE BaselineAfterFetch(lastHomeProbByEventKey, watch.eventKey, result)
          /\ staleBaseline' = IF result = FetchError THEN staleBaseline
                              ELSE staleBaseline \ {watch.eventKey}
          /\ older' = IF result # FetchError /\ "older" \in u.trace
                      THEN [older EXCEPT ![watch.eventKey] = prev]
                      ELSE older
          /\ last' = Trace(u, [op |-> "poll", poll |-> t, watch |-> watch,
                               prev |-> prev, result |-> result, queued |-> queued,
                               stalePrev |-> watch.eventKey \in staleBaseline,
                               afterFailedWatch |-> watch.eventKey \in failedWatch,
                               older |-> older[watch.eventKey],
                               issued |-> IssuedKey(AfterFetch(watchlist, polls[t], result))])
    /\ polls' = [polls EXCEPT ![t] = AfterFetch(watchlist, polls[t], result)]
    /\ allPushed' = IF "queue" \in u.trace
                    THEN allPushed \o SubSeq(pendingWatchAlerts', Len(pendingWatchAlerts) + 1,
                                             Len(pendingWatchAlerts'))
                    ELSE allPushed
    /\ ticks' = [ticks EXCEPT ![t] =
            [keys |-> @.keys,
             fetched |-> IF "snapshot" \in u.trace /\ polls'[t].pc = "fetch"
                         THEN @.fetched \cup {polls'[t].watch.eventKey}
                         ELSE @.fetched,
             twice |-> IF "snapshot" \in u.trace /\ polls'[t].pc = "fetch"
                       THEN @.twice \/ polls'[t].watch.eventKey \in @.fetched
                       ELSE @.twice,
             alerted |-> IF "burst" \in u.trace /\ pushed' > pushed
                         THEN @.alerted \cup {polls[t].watch.eventKey}
                         ELSE @.alerted,
             again |-> IF "burst" \in u.trace /\ pushed' > pushed
                       THEN @.again \/ polls[t].watch.eventKey \in @.alerted
                       ELSE @.again,
             removed |-> FALSE]]
    /\ failedWatch' = IF result = FetchError THEN failedWatch
                      ELSE failedWatch \ {polls[t].watch.eventKey}
    /\ UNCHANGED <<lookup, hung, allDrained,
                   watchlist, watchPollerStarted, timers, watchCalls, returnedIds,
                   rewatch>>

\* The fetch of poll t never returns: the invocation stays suspended for
\* ever and does nothing more, so it is no longer counted among the
\* invocations in flight.
FetchHangs(t, u) ==
    /\ polls[t].pc = "fetch"
    /\ hung' = hung \cup {polls[t].watch.eventKey}
    /\ polls' = [polls EXCEPT ![t] = Idle]
    /\ last' = Trace(u, [op |-> "hang", poll |-> t])
    /\ UNCHANGED <<failedWatch, lookup, allPushed, allDrained, ticks,
                   watchlist, lastHomeProbByEventKey, pendingWatchAlerts,
                   watchPollerStarted, timers, watchCalls, pushed, returnedIds,
                   staleBaseline, rewatch, older>>

\* ------------------------------------------------------------ WATCH_MATCH
FreeWatchCall(h) ==
    /\ watchCalls[h].pc = "idle"
    /\ \A g \in WatchCallIds : g < h => watchCalls[g].pc # "idle"

\* The handler with a text that carries an eventKey, up to its await of the
\* baseline fetch.
WatchMatch(text, u) ==
    /\ WatchCommand[text].eventKey # null
    /\ LET eventKey == WatchCommand[text].eventKey
           thresholdPct == WatchCommand[text].thresholdPct
           direction == WatchCommand[text].direction
       IN /\ \E h \in WatchCallIds :
                /\ FreeWatchCall(h)
                /\ watchCalls' = [watchCalls EXCEPT ![h] =
                      [pc |-> "fetch", eventKey |-> eventKey,
                       afterUnwatch |-> rewatch[eventKey] # "never",
                       replaced |-> "watched" \in u.trace /\ MapHas(watchlist, eventKey)]]
          /\ watchlist' = MapSet(watchlist, [eventKey |-> eventKey,
                                             thresholdPct |-> thresholdPct,
                                             direction |-> direction])
          /\ last' = Trace(u, [op |-> "watch", text |-> text, eventKey |-> eventKey,
                               replaced |-> MapHas(watchlist, eventKey),
                               success |-> TRUE])
    /\ UNCHANGED <<failedWatch, lookup, hung, allPushed, allDrained, ticks,
                   lastHomeProbByEventKey, pendingWatchAlerts, watchPollerStarted,
                   timers, polls, pushed, returnedIds, staleBaseline, rewatch, older>>

\* The handler with a text that carries no eventKey: the usage hint.
WatchMatchNoKey(text, u) ==
    /\ WatchCommand[text].eventKey = null
    /\ last' = Trace(u, [op |-> "watch", text |-> text, eventKey |-> null,
                         replaced |-> FALSE, success |-> FALSE])
    /\ UNCHANGED <<failedWatch, lookup, hung, allPushed, allDrained, ticks,
                   watchlist, lastHomeProbByEventKey, pendingWatchAlerts,
                   watchPollerStarted, timers, polls, watchCalls, pushed, returnedIds,
                   staleBaseline, rewatch, older>>

\* As if the catch recorded 0 as the baseline.
BaselineAfterWatch_ZeroOnError(baseline, eventKey, result) ==
    [baseline EXCEPT ![eventKey] = IF result = FetchError THEN 0 ELSE result]

\* The try/catch around the baseline fetch: the fetched value is stored, an
\* error is swallowed.
BaselineAfterWatch(baseline, eventKey, result) ==
    IF result = FetchError THEN baseline
    ELSE [baseline EXCEPT ![eventKey] = result]

\* The baseline fetch of handler h returns; the handler replies and returns
\* success.
WatchFetchReturns(h, result, u) ==
    /\ watchCalls[h].pc # "idle"
    /\ LET eventKey == watchCalls[h].eventKey
       IN /\ lastHomeProbByEventKey' =
                BaselineAfterWatch(lastHomeProbByEventKey, eventKey, result)
          /\ staleBaseline' = IF result = FetchError THEN staleBaseline
                              ELSE staleBaseline \ {eventKey}
          /\ older' = IF result # FetchError /\ "older" \in u.trace
                      THEN [older EXCEPT ![eventKey] = lastHomeProbByEventKey[eventKey]]
                      ELSE older
          /\ rewatch' = IF watchCalls[h].afterUnwatch
                        THEN [rewatch EXCEPT ![eventKey] = "rewatched"]
                        ELSE rewatch
          /\ failedWatch' = IF "watched" \notin u.trace THEN failedWatch
                            ELSE IF result = FetchError THEN failedWatch \cup {eventKey}
                            ELSE failedWatch \ {eventKey}
          /\ last' = Trace(u, [op |-> "watched", eventKey |-> eventKey,
                               result |-> result,
                               prev |-> lastHomeProbByEventKey[eventKey],
                               replaced |-> watchCalls[h].replaced,
                               success |-> TRUE])
    /\ watchCalls' = [watchCalls EXCEPT ![h] = Idle]
    /\ UNCHANGED <<lookup, hung, allPushed, allDrained, ticks,
                   watchlist, pendingWatchAlerts, watchPollerStarted, timers, polls,
                   pushed, returnedIds>>

\* ---------------------------------------------------------- UNWATCH_MATCH
\* What a delete does to a live iterator that has passed `done` values: an
\* entry it had passed no longer counts.
IteratorAfterDelete(list, eventKey, poll) ==
    IF poll.pc # "idle" /\ MapHas(list, eventKey) /\ IndexOf(list, eventKey) <= poll.idx
    THEN [poll EXCEPT !.idx = poll.idx - 1]
    ELSE poll

\* As if lastHomeProbByEventKey.delete were missing.
BaselineAfterUnwatch_Kept(baseline, eventKey) == baseline

\* lastHomeProbByEventKey.delete(eventKey)
BaselineAfterUnwatch(baseline, eventKey) ==
    [baseline EXCEPT ![eventKey] = undefined]

\* As if an unwatch that removed nothing were a failure.
UnwatchResult_Strict(removed) ==
    [success |-> removed,
     reply |-> IF removed THEN "Stopped watching" ELSE "I wasn't watching"]

\* The reply and the result of the handler after watchlist.delete.
UnwatchResult(removed) ==
    [success |-> TRUE,
     reply |-> IF removed THEN "Stopped watching" ELSE "I wasn't watching"]

\* The handler with a text that carries an eventKey.
UnwatchMatch(text, u) ==
    /\ UnwatchCommand[text] # null
    /\ LET eventKey == UnwatchCommand[text]
       IN /\ watchlist' = MapDelete(watchlist, eventKey)
          /\ lastHomeProbByEventKey' = BaselineAfterUnwatch(lastHomeProbByEventKey, eventKey)
          /\ polls' = [t \in PollIds |-> IteratorAfterDelete(watchlist, eventKey, polls[t])]
          /\ staleBaseline' = IF lastHomeProbByEventKey'[eventKey] # undefined
                              THEN staleBaseline \cup {eventKey}
                              ELSE staleBaseline \ {eventKey}
          /\ rewatch' = IF "rewatch" \in u.trace
                        THEN [rewatch EXCEPT ![eventKey] = "unwatched"]
                        ELSE rewatch
          /\ older' = [older EXCEPT ![eventKey] = undefined]
          /\ ticks' = IF "order" \in u.trace
                      THEN [t \in PollIds |->
                              IF IssuedKey(polls[t]) = eventKey
                              THEN [ticks[t] EXCEPT !.removed = TRUE]
                              ELSE ticks[t]]
                      ELSE ticks
          /\ last' = Trace(u, [op |-> "unwatch", text |-> text, eventKey |-> eventKey,
                               removed |-> MapHas(watchlist, eventKey),
                               reply |-> UnwatchResult(MapHas(watchlist, eventKey)).reply,
                               success |-> UnwatchResult(MapHas(watchlist, eventKey)).success])
    /\ failedWatch' = failedWatch \ {UnwatchCommand[text]}
    /\ UNCHANGED <<lookup, hung, allPushed, allDrained,
                   pendingWatchAlerts, watchPollerStarted, timers, watchCalls,
                   pushed, returnedIds>>

\* The handler with a text that carries no eventKey.
UnwatchMatchNoKey(text, u) ==
    /\ UnwatchCommand[text] = null
    /\ last' = Trace(u, [op |-> "unwatch", text |-> text, eventKey |-> null,
                         removed |-> FALSE, reply |-> "Tell me which eventKey to unwatch.",
                         success |-> FALSE])
    /\ UNCHANGED <<failedWatch, lookup, hung, allPushed, allDrained, ticks,
                   watchlist, lastHomeProbByEventKey, pendingWatchAlerts,
                   watchPollerStarted, timers, polls, watchCalls, pushed, returnedIds,
                   staleBaseline, rewatch, older>>

\* ----------------------------------------------------------- LIST_WATCHES
\* As if the reply showed the newest alerts and the splice removed the oldest.
ListedAlerts_Newest(list, queue) ==
    IF Len(list) = 0 THEN <<>>
    ELSE SubSeq(queue, Len(queue) - Min(Len(queue), DrainLimit) + 1, Len(queue))

\* The alerts in the text of the reply.
ListedAlerts(list, queue) ==
    IF Len(list) = 0 THEN <<>>
    ELSE IF Len(queue) > 0 THEN SpliceRemoved(queue, 0, DrainLimit) ELSE <<>>

\* As if written pendingWatchAlerts.slice(0, 5).
QueueAfterList_Slice(list, queue) == queue

\* pendingWatchAlerts after the handler.
QueueAfterList(list, queue) ==
    IF Len(list) = 0 THEN queue
    ELSE IF Len(queue) > 0 THEN SpliceRest(queue, 0, DrainLimit) ELSE queue

ListWatches(u) ==
    /\ pendingWatchAlerts' = QueueAfterList(watchlist, pendingWatchAlerts)
    /\ LET alerts == ListedAlerts(watchlist, pendingWatchAlerts)
           ids == {alerts[i].id : i \in 1..Len(alerts)}
       IN /\ returnedIds' = returnedIds \cup ids
          /\ last' = Trace(u, [op |-> "list",
                               pendingBefore |-> Len(pendingWatchAlerts),
                               alerts |-> alerts,
                               again |-> ids \cap returnedIds,
                               poller |-> watchPollerStarted])
    /\ allDrained' = IF "queue" \in u.trace
                     THEN allDrained \o ListedAlerts(watchlist, pendingWatchAlerts)
                     ELSE allDrained
    /\ UNCHANGED <<failedWatch, lookup, hung, allPushed, ticks,
                   watchlist, lastHomeProbByEventKey, watchPollerStarted, timers,
                   polls, watchCalls, pushed, staleBaseline, rewatch, older>>

\* ------------------------------------------------------------------- Next
NextIn(u) ==
    \/ Start(u)
    \/ \E s \in ServiceIds : Stop(s, u)
    \/ StopNoService(u)
    \/ \E s \in ServiceIds : TimerFire(s, u)
    \/ \E t \in PollIds, result \in u.results : PollFetchReturns(t, result, u)
    \/ \E text \in u.watchTexts : WatchMatch(text, u)
    \/ \E text \in u.watchTexts : WatchMatchNoKey(text, u)
    \/ \E h \in WatchCallIds, result \in u.results : WatchFetchReturns(h, result, u)
    \/ \E text \in u.unwatchTexts : UnwatchMatch(text, u)
    \/ \E text \in u.unwatchTexts : UnwatchMatchNoKey(text, u)
    \/ ListWatches(u)

Next == NextIn(Wide)

NextDeep == NextIn(Deep)

NextTurn == NextIn(Turn)

NextLong == NextIn(Long)

NextMany == NextIn(Many)

NextAgain == NextIn(Again)

NextTalk == NextIn(Talk)

NextOdd == NextIn(Odd)

NextFlow == NextIn(Flow)

NextSnap == NextIn(Snap)

NextTwice == NextIn(Twice)

NextRank == NextIn(Rank)

NextBase == NextIn(Base)

NextLive ==
    \/ NextIn(Live)
    \/ \E t \in PollIds : FetchHangs(t, Live)

Spec == Init /\ [][Next]_vars

SpecDeep == Init /\ [][NextDeep]_vars

SpecTurn == Init /\ [][NextTurn]_vars

SpecLong == Init /\ [][NextLong]_vars

SpecMany == Init /\ [][NextMany]_vars

SpecAgain == Init /\ [][NextAgain]_vars

SpecTalk == Init /\ [][NextTalk]_vars

SpecOdd == Init /\ [][NextOdd]_vars

SpecFlow == Init /\ [][NextFlow]_vars

SpecSnap == Init /\ [][NextSnap]_vars

SpecTwice == Init /\ [][NextTwice]_vars

SpecRank == Init /\ [][NextRank]_vars

SpecBase == Init /\ [][NextBase]_vars

\* The interval timer fires again and again while it is set (a tick begins
\* whenever the bound on ticks in flight allows it infinitely often), and a
\* fetch that does not hang returns.
SpecLive ==
    /\ Init
    /\ [][NextLive]_vars
    /\ SF_vars(\E s \in ServiceIds : TimerFire(s, Live))
    /\ \A t \in PollIds :
            WF_vars(\E result \in Live.results : PollFetchReturns(t, result, Live))

NextFind == FindLease

SpecFind == InitFind /\ [][NextFind]_vars

\* ----------------------------------------------------------------- claims
\* The step just taken was a successful fetch of a poll that found a baseline.
PolledWithBaseline ==
    /\ last.op = "poll"
    /\ last.result # FetchError
    /\ last.prev # undefined

\* C1: for a watch with direction any and effective threshold T (its own
\* threshold, or 3 when it has none), a poll that fetches p1 for a key whose
\* baseline is p0 appends exactly one alert, for that key and that move,
\* when |100 * (p1 - p0)| >= T, and appends none otherwise.  The watch is
\* the one the tick read from the registry when it issued the fetch.
C1_AnyAlertsIffThreshold ==
    (PolledWithBaseline /\ last.watch.direction = "any") =>
        LET T == IF last.watch.thresholdPct = undefined THEN 3000
                 ELSE last.watch.thresholdPct
            moved == Abs(100 * (last.result - last.prev)) >= T
        IN /\ last.queued = (IF moved THEN 1 ELSE 0)
           /\ moved =>
                LET alert == pendingWatchAlerts[Len(pendingWatchAlerts)]
                IN /\ alert.eventKey = last.watch.eventKey
                   /\ alert.before = last.prev
                   /\ alert.after = last.result

\* C1 witness: a zero-threshold watch of direction any saw an unchanged
\* probability and queued its alert.
C1_Witness ==
    /\ PolledWithBaseline
    /\ last.watch.direction = "any"
    /\ last.watch.thresholdPct = 0
    /\ last.result = last.prev
    /\ last.queued = 1

\* C2: a watch with direction down never queues an alert on a poll whose
\* new probability is above the baseline, and a watch with direction up
\* never queues one where it is below, whatever the move and the threshold.
C2_DirectionFilter ==
    (/\ PolledWithBaseline
     /\ \/ (last.watch.direction = "down" /\ last.result > last.prev)
        \/ (last.watch.direction = "up" /\ last.result < last.prev))
    => last.queued = 0

\* C2 witness: a down watch saw a rise of 4 points, above its threshold, and
\* queued nothing.
C2_Witness ==
    /\ PolledWithBaseline
    /\ last.watch.direction = "down"
    /\ last.result - last.prev = 40
    /\ last.watch.thresholdPct = undefined
    /\ last.queued = 0

\* C3: for a registered watch whose key has no recorded baseline, a
\* successful poll of that key queues no alert and changes nothing but that
\* key's baseline, which becomes the fetched home-win probability.
C3_FirstPollOnlyBaseline ==
    [][(/\ last'.op = "poll"
        /\ last'.result # FetchError
        /\ last'.prev = undefined
        /\ MapHas(watchlist, last'.watch.eventKey))
       => /\ pendingWatchAlerts' = pendingWatchAlerts
          /\ watchlist' = watchlist
          /\ lastHomeProbByEventKey' =
                [lastHomeProbByEventKey EXCEPT ![last'.watch.eventKey] = last'.result]]_vars

\* C3 witness: the first poll of a registered watch recorded its baseline.
C3_Witness ==
    /\ last.op = "poll"
    /\ last.result # FetchError
    /\ last.prev = undefined
    /\ MapHas(watchlist, last.watch.eventKey)
    /\ lastHomeProbByEventKey[last.watch.eventKey] = last.result
    /\ pendingWatchAlerts = <<>>

C5_ComparesWithPrecedingOnly ==
    [][(last'.op = "poll" /\ last'.result # FetchError) =>
        LET eventKey == last'.watch.eventKey
            T == IF last'.watch.thresholdPct = undefined THEN 3000
                 ELSE last'.watch.thresholdPct
        IN /\ lastHomeProbByEventKey'[eventKey] = last'.result
           /\ Len(pendingWatchAlerts') > Len(pendingWatchAlerts) =>
                /\ lastHomeProbByEventKey[eventKey] # undefined
                /\ Abs(100 * (last'.result - lastHomeProbByEventKey[eventKey])) >= T]_vars

\* C5 witness: 0.50, then 0.52, then 0.54 under the default threshold of 3
\* points: 4 points in all, and no alert was ever pushed.
C5_Witness ==
    /\ PolledWithBaseline
    /\ last.watch.thresholdPct = undefined
    /\ last.watch.direction = "any"
    /\ last.older = 500
    /\ last.prev = 520
    /\ last.result = 540
    /\ lastHomeProbByEventKey[last.watch.eventKey] = 540
    /\ pushed = 0

\* C6: within a tick, a failed fetch for one watch leaves the baselines and
\* the alert queue as they were and does not end the tick: when a watch
\* follows it in the registry, the tick goes on to fetch that watch.
C6_FailedFetchIsIsolated ==
    [][(last'.op = "poll" /\ last'.result = FetchError) =>
        /\ lastHomeProbByEventKey' = lastHomeProbByEventKey
        /\ pendingWatchAlerts' = pendingWatchAlerts
        /\ watchlist' = watchlist
        /\ LET t == last'.poll
           IN polls[t].idx < Len(watchlist) =>
                /\ polls'[t].pc = "fetch"
                /\ polls'[t].watch = watchlist[polls[t].idx + 1]]_vars

\* C6 witness: the fetch for the first of two watches failed, and the tick is
\* now fetching the second.
C6_Witness ==
    /\ last.op = "poll"
    /\ last.result = FetchError
    /\ Len(watchlist) = 2
    /\ last.watch = watchlist[1]
    /\ polls[last.poll].pc = "fetch"
    /\ polls[last.poll].watch = watchlist[2]

\* C7: the drain of LIST_WATCHES, whose limit is 5, removes exactly the
\* min(5, queue length) oldest alerts, returns them in push order and leaves
\* the rest in their order; no alert is returned by two drains.
C7_DrainTakesOldest ==
    [][(last'.op = "list" /\ Len(watchlist) > 0) =>
        LET n == IF Len(pendingWatchAlerts) < 5 THEN Len(pendingWatchAlerts) ELSE 5
            alerts == last'.alerts
        IN /\ alerts = SubSeq(pendingWatchAlerts, 1, n)
           /\ pendingWatchAlerts' = SubSeq(pendingWatchAlerts, n + 1, Len(pendingWatchAlerts))
           /\ \A i, j \in 1..Len(alerts) : i < j => alerts[i].id < alerts[j].id
           /\ last'.again = {}]_vars

\* C7 witness: a drain of a queue of more than 5 alerts returned 5 and left
\* the rest.
C7_Witness ==
    /\ last.op = "list"
    /\ last.pendingBefore > 5
    /\ Len(last.alerts) = 5
    /\ Len(pendingWatchAlerts) = last.pendingBefore - 5

\* C8: every LIST_WATCHES call, in every state of the registry and the
\* queue, removes the min(5, queue length) oldest pending alerts from the
\* queue and includes them in its output.
C8_ListAlwaysDrains ==
    last.op = "list" =>
        LET n == IF last.pendingBefore < 5 THEN last.pendingBefore ELSE 5
        IN /\ Len(last.alerts) = n
           /\ Len(pendingWatchAlerts) = last.pendingBefore - n

\* The instances whose interval timer is set.
ActiveTimers == {s \in ServiceIds : timers[s] = "set"}

\* C9: Start is idempotent: after any sequence of Start and Stop calls at
\* most one recurring poll timer is active, a Start while the poller runs
\* adding none.
C9_AtMostOneTimer == Cardinality(ActiveTimers) <= 1

\* C10: after Stop has run, and until the service is started again, no new
\* poll tick begins.  (watchPollerStarted is true exactly when the latest of
\* the Start and Stop calls was a Start.)
C10_NoTickAfterStop == last.op = "tick" => watchPollerStarted

\* The candidates of a returned call that the explicit identifier of its text
\* names, and those both of whose team names the text names.
NamedByKey ==
    {i \in 1..Len(lookup.leases) :
        \/ lookup.leases[i].eventKey = extractEventKey(lookup.text)
        \/ lookup.leases[i].leaseId = extractEventKey(lookup.text)}

LongWordIn(team, text) ==
    \E i \in 1..Len(split(toLowerCase(team), " ")) :
        LET word == split(toLowerCase(team), " ")[i]
        IN Len(word) > 3 /\ includes(toLowerCase(text), word)

NamedByTeams ==
    {i \in 1..Len(lookup.leases) :
        /\ LongWordIn(lookup.leases[i].homeTeam, lookup.text)
        /\ LongWordIn(lookup.leases[i].awayTeam, lookup.text)}

C12_FirstFuzzyMatch ==
    (lookup.pc = "return" /\ (extractEventKey(lookup.text) = null \/ NamedByKey = {}))
        => IF NamedByTeams = {} THEN lookup.lease = NoLease
           ELSE \E i \in NamedByTeams :
                    /\ \A j \in NamedByTeams : i <= j
                    /\ lookup.lease = lookup.leases[i]

\* C12 witness: the first candidate has only one of its teams in the text,
\* two later ones have both, and the earlier of those two is returned.
C12_Witness ==
    /\ lookup.pc = "return"
    /\ extractEventKey(lookup.text) = null
    /\ \E i, j \in NamedByTeams :
            /\ 1 < i /\ i < j
            /\ 1 \notin NamedByTeams
            /\ LongWordIn(lookup.leases[1].awayTeam, lookup.text)
            /\ lookup.lease = lookup.leases[i]
            /\ lookup.lease # lookup.leases[j]

\* The candidate listing at the time of the commands.
CurrentListing == <<Arsenal_Chelsea, Manchester_Derby>>

\* C13: a watch or unwatch command whose text carries no explicit identifier
\* but names both teams of a candidate of the current listing is resolved to
\* that candidate's eventKey: it succeeds, and the watch for that key is
\* added (removed), instead of failing with a usage hint.
C13_TeamNamesResolve ==
    (/\ last.op \in {"watch", "unwatch"}
     /\ extractEventKey(last.text) = null
     /\ findLeaseFromText(CurrentListing, last.text) # NoLease)
    => /\ last.success
       /\ last.eventKey = findLeaseFromText(CurrentListing, last.text).eventKey
       /\ (last.op = "watch") = MapHas(watchlist, last.eventKey)

\* C14: an unwatch command for a key that is not in the registry succeeds
\* with the "wasn't watching" notice and leaves the registry and the queue of
\* pending alerts as they were.
C14_UnwatchUnknownKey ==
    [][(/\ last'.op = "unwatch"
        /\ last'.eventKey # null
        /\ ~MapHas(watchlist, last'.eventKey))
       => /\ last'.success
          /\ last'.reply = "I wasn't watching"
          /\ watchlist' = watchlist
          /\ pendingWatchAlerts' = pendingWatchAlerts]_vars

\* C14 witness: with a watch registered and an alert pending, an unwatch of
\* another key succeeded with the notice.
C14_Witness ==
    /\ last.op = "unwatch"
    /\ last.eventKey = "ev_2"
    /\ last.success
    /\ last.reply = "I wasn't watching"
    /\ MapHas(watchlist, "ev_1")
    /\ Len(pendingWatchAlerts) > 0

\* What each watch text of the Talk environment asks for.
Asked ==
    [text \in {"watch ev_1", "watch ev_1 5%", "watch ev_1 up abc%",
                "watch ev_1 down 2.5%"} |->
        IF text = "watch ev_1 5%" THEN [thresholdPct |-> 5000, direction |-> "any"]
        ELSE IF text = "watch ev_1 up abc%" THEN [thresholdPct |-> undefined, direction |-> "up"]
        ELSE IF text = "watch ev_1 down 2.5%" THEN [thresholdPct |-> 2500, direction |-> "down"]
        ELSE [thresholdPct |-> undefined, direction |-> "any"]]

\* The watches the registry holds for eventKey.
WatchesOf(list, eventKey) == {i \in 1..Len(list) : list[i].eventKey = eventKey}

\* C15: the registry never holds two watches for one eventKey, and the watch
\* it holds for a key has the threshold and the direction of the most recent
\* watch command for that key: a watch command stores its own, and no other
\* step changes a watch that stays.
C15_OneWatchPerKey ==
    [][\A k \in EventKeys :
        /\ Cardinality(WatchesOf(watchlist', k)) <= 1
        /\ IF last'.op = "watch" /\ last'.eventKey = k
           THEN \E i \in WatchesOf(watchlist', k) :
                    /\ watchlist'[i].thresholdPct = Asked[last'.text].thresholdPct
                    /\ watchlist'[i].direction = Asked[last'.text].direction
           ELSE \A i \in WatchesOf(watchlist', k) :
                    \E j \in WatchesOf(watchlist, k) : watchlist'[i] = watchlist[j]]_vars

\* C15 witness: a watch command for a key that had a watch replaced it, and
\* the one watch of the key has the 5 points of that command.
C15_Witness ==
    /\ last.op = "watch"
    /\ last.text = "watch ev_1 5%"
    /\ last.replaced
    /\ Len(watchlist) = 1
    /\ watchlist[1] = [eventKey |-> "ev_1", thresholdPct |-> 5000, direction |-> "any"]

\* The watch texts of the Talk environment that have an eventKey and no
\* parseable threshold token.
NoThresholdToken == {"watch ev_1", "watch ev_1 up abc%"}

\* C16: a watch command with an eventKey and without a parseable threshold
\* token succeeds and registers the watch, with no threshold of its own; and
\* a poll of a watch that has no threshold of its own queues an alert only
\* for a move of at least 3 points, and for every such move when its
\* direction is any.
C16_DefaultThreshold ==
    /\ (last.op = "watch" /\ last.text \in NoThresholdToken) =>
            /\ last.success
            /\ \E i \in 1..Len(watchlist) :
                    /\ watchlist[i].eventKey = last.eventKey
                    /\ watchlist[i].thresholdPct = undefined
    /\ (PolledWithBaseline /\ last.watch.thresholdPct = undefined) =>
            /\ last.queued = 1 => Abs(100 * (last.result - last.prev)) >= 3000
            /\ (last.watch.direction = "any"
                    /\ Abs(100 * (last.result - last.prev)) >= 3000) => last.queued = 1

\* C16 witness: the watch of "watch ev_1 up abc%", the only text that asks
\* for rises, is registered, rose by 4 points in a poll and queued its alert.
C16_Witness ==
    /\ PolledWithBaseline
    /\ last.watch.thresholdPct = undefined
    /\ last.watch.direction = "up"
    /\ last.result - last.prev = 40
    /\ last.queued = 1
    /\ MapHas(watchlist, last.watch.eventKey)

\* A probability: a number of [0, 1].
InUnitInterval(p) == 0 <= p /\ p <= 1000

\* C17: every probability the engine acts on is in [0, 1], whatever the
\* source returns: the home-win probability of every snapshot handed to the
\* poller, every stored baseline and both values of every queued alert.
C17_ProbabilitiesInRange ==
    /\ (last.op = "poll" /\ last.result # FetchError) => InUnitInterval(last.result)
    /\ \A k \in EventKeys :
            lastHomeProbByEventKey[k] = undefined \/ InUnitInterval(lastHomeProbByEventKey[k])
    /\ \A i \in 1..Len(pendingWatchAlerts) :
            /\ InUnitInterval(pendingWatchAlerts[i].before)
            /\ InUnitInterval(pendingWatchAlerts[i].after)

\* A fetch for a key other than k never returns, while the poller runs and k
\* is registered.
StuckBeside(k) ==
    /\ \E s \in ServiceIds : timers[s] = "set"
    /\ MapHas(watchlist, k)
    /\ hung \ {k} # {}

\* The step just taken issued the fetch for k.
IssuedFor(k) == last.op \in {"tick", "poll"} /\ last.issued = k

\* C18: when a fetch for one watch never returns, then as long as the poller
\* runs every other registered watch, before or after it in the registry,
\* has its fetch issued again and again by later ticks.
C18_StuckFetchBlocksNoOther ==
    \A k \in {"ev_1", "ev_2"} : (<>[]StuckBeside(k)) => ([]<>IssuedFor(k))

\* C19: whatever the interleaving of the polls, which push, and the
\* LIST_WATCHES calls, which drain, the sequence of all alerts pushed is the
\* sequence of all alerts drained followed by the queue: no alert is lost,
\* none is returned twice, none is returned and still queued.
C19_PushedIsDrainedThenQueued ==
    /\ allPushed = allDrained \o pendingWatchAlerts
    /\ \A i, j \in 1..Len(allPushed) : i # j => allPushed[i] # allPushed[j]

\* C19 witness: a drain has just returned alerts that were pushed after an
\* earlier drain had returned others.
C19_Witness ==
    /\ last.op = "list"
    /\ Len(last.alerts) > 0
    /\ Len(allDrained) > Len(last.alerts)
    /\ allPushed = allDrained

\* C20: a tick works on the registry as it was when the tick began: it
\* issues a fetch only for a key registered at that moment, for none of them
\* twice, and when it ends it has issued one for each of them, whatever
\* watches the handlers add or remove while it is suspended.
C20_TickUsesSnapshot ==
    \A t \in PollIds :
        /\ ticks[t].fetched \subseteq ticks[t].keys
        /\ ~ticks[t].twice
        /\ polls[t].pc = "idle" => ticks[t].fetched = ticks[t].keys

\* C21: within one poll tick at most one alert is queued per watched
\* eventKey, whatever watch and unwatch commands run while the tick is
\* suspended in its fetches.
C21_OneAlertPerKeyPerTick == \A t \in PollIds : ~ticks[t].again

\* C22: every eventKey that has a recorded last-observed probability is in
\* the watch registry: the baseline goes with the watch, and no watch handler
\* and no poll tick creates one for a key that is not watched, also not one
\* whose fetch was in flight when the key was unwatched.
C22_BaselineOnlyForWatched ==
    \A k \in EventKeys :
        lastHomeProbByEventKey[k] # undefined => MapHas(watchlist, k)

\* a is an initial part of b.
IsPrefix(a, b) == Len(a) <= Len(b) /\ a = SubSeq(b, 1, Len(a))

\* The step begins a tick: invocation t of pollWatchedEvents issues its
\* first fetch.
TickBegins(t) == polls[t].pc = "idle" /\ polls'[t].pc = "fetch"

\* C23: a tick fetches and evaluates its watches one at a time in the
\* insertion order of the registry: it begins with the first watch, and when
\* the fetch for a watch returns it goes on to the watch that follows that
\* one in the registry, or ends when none follows (where the entry it was
\* fetching has been deleted meanwhile, the registry has no place for it and
\* nothing is said).  An alert enters the queue, at its end, in the step that
\* detects it, and the drains return the alerts in the order of the pushes.
C23_TickAndQueueOrder ==
    [][/\ \A t \in PollIds : TickBegins(t) => polls'[t].watch = watchlist[1]
       /\ last'.op = "poll" =>
            LET t == last'.poll
                key == last'.watch.eventKey
                place == {i \in 1..Len(watchlist) : watchlist[i].eventKey = key}
            IN /\ ~ticks[t].removed =>
                    \E i \in place :
                        IF i < Len(watchlist)
                        THEN polls'[t].pc = "fetch" /\ polls'[t].watch = watchlist[i + 1]
                        ELSE polls'[t].pc = "idle"
               /\ \/ pendingWatchAlerts' = pendingWatchAlerts
                  \/ /\ Len(pendingWatchAlerts') = Len(pendingWatchAlerts) + 1
                     /\ IsPrefix(pendingWatchAlerts, pendingWatchAlerts')
                     /\ LET alert == pendingWatchAlerts'[Len(pendingWatchAlerts')]
                        IN /\ alert.eventKey = key
                           /\ alert.before = last'.prev
                           /\ alert.after = last'.result
       /\ last'.op = "list" =>
            /\ IsPrefix(last'.alerts, pendingWatchAlerts)
            /\ pendingWatchAlerts' =
                    SubSeq(pendingWatchAlerts, Len(last'.alerts) + 1, Len(pendingWatchAlerts))]_vars

\* C23 witness: with ev_1 before ev_2 in the registry, the first alert pushed
\* was for ev_1 and the second for ev_2, and a drain has returned them in
\* that order.
C23_Witness ==
    /\ last.op = "list"
    /\ Len(last.alerts) = 2
    /\ last.alerts[1].eventKey = "ev_1"
    /\ last.alerts[2].eventKey = "ev_2"
    /\ Len(watchlist) = 2
    /\ watchlist[1].eventKey = "ev_1"
    /\ watchlist[2].eventKey = "ev_2"
    /\ last.alerts[1].id = 1
    /\ last.alerts[2].id = 2
    /\ pendingWatchAlerts = <<>>

\* C24: a watch command for a key that is already watched replaces the
\* configuration of the watch and leaves the recorded baseline of the key as
\* it was: when the handler of such a command returns, the key has the
\* baseline it had.
C24_ReplaceKeepsBaseline ==
    (last.op = "watched" /\ last.replaced /\ last.prev # undefined) =>
        lastHomeProbByEventKey[last.eventKey] = last.prev

\* The step just taken was the first successful poll of its key since a
\* watch handler failed its baseline fetch for the key.
PolledAfterFailedWatch ==
    last.op = "poll" /\ last.result # FetchError /\ last.afterFailedWatch

C26_OneTickInFlight ==
    Cardinality({t \in PollIds : polls[t].pc = "fetch"}) <= 1

\* C27: an alert is queued only for an eventKey that is in the registry at
\* the moment of the push; a tick whose fetch for a key was in flight when
\* the key was unwatched queues no alert for it.
C27_AlertOnlyForWatched ==
    (last.op = "poll" /\ last.queued > 0) => MapHas(watchlist, last.watch.eventKey)

\* Whether a move from prev to next is to alert under the threshold and the
\* direction of watch w.
Decides(w, prev, next) ==
    LET T == IF w.thresholdPct = undefined THEN 3000 ELSE w.thresholdPct
        d == 100 * (next - prev)
    IN /\ \/ w.direction = "any"
          \/ (w.direction = "up" /\ d > 0)
          \/ (w.direction = "down" /\ d < 0)
       /\ Abs(d) >= T

\* C28: the alert decision for a key uses the threshold and the direction
\* registered for the key at the moment of the decision; those of a watch
\* that was replaced while the tick's fetch for the key was in flight are
\* not used.
C28_DecisionUsesRegistered ==
    (PolledWithBaseline /\ MapHas(watchlist, last.watch.eventKey)) =>
        LET w == watchlist[IndexOf(watchlist, last.watch.eventKey)]
        IN last.queued = (IF Decides(w, last.prev, last.result) THEN 1 ELSE 0)

\* The step is the return of the fetch of invocation t.
Returns(t) == last'.op = "poll" /\ last'.poll = t

\* C28 as amended: the alert decision for a key uses the threshold and the
\* direction the key had in the registry when the tick issued its fetch for
\* the key.  The tick takes the watch from the registry when it issues the
\* fetch, no command changes the watch the tick holds while the fetch is in
\* flight, and the decision at the return of the fetch is made with that
\* watch; a replacement during the fetch counts from the next fetch on.
C28_DecisionUsesWatchAtIssue ==
    [][\A t \in PollIds :
        /\ (polls'[t].pc = "fetch" /\ (polls[t].pc = "idle" \/ Returns(t))) =>
                \E i \in 1..Len(watchlist') : watchlist'[i] = polls'[t].watch
        /\ (polls[t].pc = "fetch" /\ ~Returns(t)) =>
                polls'[t].pc = "fetch" /\ polls'[t].watch = polls[t].watch
        /\ (polls[t].pc = "fetch" /\ Returns(t)) =>
                /\ last'.watch = polls[t].watch
                /\ (last'.result # FetchError /\ last'.prev # undefined) =>
                        last'.queued =
                            (IF Decides(polls[t].watch, last'.prev, last'.result)
                             THEN 1 ELSE 0)]_vars

\* C28 witness: ev_1 was watched with the default threshold when the tick
\* issued its fetch and was replaced by a watch with 5 points during the
\* fetch; the fetch returned a move of 4 points, and the tick queued an alert.
C28_Witness ==
    /\ PolledWithBaseline
    /\ last.watch.thresholdPct = undefined
    /\ last.watch.direction = "any"
    /\ last.result - last.prev = 40
    /\ last.queued = 1
    /\ MapHas(watchlist, last.watch.eventKey)
    /\ watchlist[IndexOf(watchlist, last.watch.eventKey)].thresholdPct = 5000

\* C29: a poll that observes a home-win probability equal to the recorded
\* baseline never queues an alert, for every direction and every threshold a
\* watch command can register, the threshold of 0% included.
C29_NoMoveNoAlert ==
    (PolledWithBaseline /\ last.result = last.prev) => last.queued = 0

\* C29 as amended: a poll that observes a home-win probability equal to the
\* recorded baseline queues no alert for a watch of direction up or down,
\* whatever its threshold, and none for a watch of direction any with a
\* threshold above 0 or with none of its own; for a watch of direction any
\* with the threshold 0% it queues one alert.
C29_NoMoveAlertsOnlyAnyAtZero ==
    (PolledWithBaseline /\ last.result = last.prev) =>
        last.queued = (IF last.watch.direction = "any" /\ last.watch.thresholdPct = 0
                       THEN 1 ELSE 0)

\* C29 witness: a watch of direction up with the threshold 0% saw the
\* probability of its baseline again and queued nothing.
C29_Witness ==
    /\ PolledWithBaseline
    /\ last.result = last.prev
    /\ last.watch.direction = "up"
    /\ last.watch.thresholdPct = 0
    /\ last.queued = 0
    /\ MapHas(watchlist, last.watch.eventKey)

\* C30: the flag that LIST_WATCHES reports as the state of the poller is
\* true exactly when a recurring poll timer is active, after any starts and
\* stops of the service, also with more than one started instance.
C30_FlagIffTimerActive == watchPollerStarted <=> (ActiveTimers # {})

====
